---------------------------- MODULE Spec2Model ----------------------------
(***************************************************************************)
(* Model of the retrieval-and-deduplication core of the test case          *)
(* generator (src/services/geminiService.ts): the similarity engine, the   *)
(* deduplicator, the suite store MOCK_DB and the two generation calls.     *)
(*                                                                         *)
(* A JavaScript string is a string; toLowerCase, the regular expressions,   *)
(* trim and split are computed on it character by character (SubSeq, Len   *)
(* and \o apply to strings).  A similarity score i/u is the pair of its      *)
(* numerator and denominator; the comparisons with 0.75 and 0.85 are done  *)
(* by cross multiplication.  That agrees with the IEEE double arithmetic   *)
(* of the code for every denominator the model reaches: 0.75 is a double,  *)
(* the literal 0.85 and the quotient 17/20 round to the same double, and   *)
(* any other quotient of small integers differs from the threshold by far  *)
(* more than one unit in the last place.                                   *)
(***************************************************************************)
EXTENDS Integers, Sequences, FiniteSets, TLC

(***************************************************************************)
(* Characters.                                                             *)
(***************************************************************************)
LOWER == <<"a","b","c","d","e","f","g","h","i","j","k","l","m",
           "n","o","p","q","r","s","t","u","v","w","x","y","z">>
UPPER == <<"A","B","C","D","E","F","G","H","I","J","K","L","M",
           "N","O","P","Q","R","S","T","U","V","W","X","Y","Z">>
LowerLetters == {LOWER[i] : i \in 1..26}
UpperLetters == {UPPER[i] : i \in 1..26}
Digits == {"0","1","2","3","4","5","6","7","8","9"}
\* the characters the class \s matches and trim() removes, as far as the
\* model's alphabet has them
Whitespace == {" ", "\t", "\n"}

\* str.charAt(i - 1): the i-th character, as a string of length one
charAt(str, i) == SubSeq(str, i, i)

\* String.prototype.toLowerCase on one character
toLowerChar(c) ==
    IF c \in UpperLetters
    THEN LOWER[CHOOSE i \in 1..26 : UPPER[i] = c]
    ELSE c

\* the string is lowered half by half, which keeps the recursion shallow
RECURSIVE toLowerCase(_)
toLowerCase(str) ==
    LET n == Len(str)
    IN  IF n = 0 THEN ""
        ELSE IF n = 1 THEN toLowerChar(str)
        ELSE toLowerCase(SubSeq(str, 1, n \div 2))
                \o toLowerCase(SubSeq(str, n \div 2 + 1, n))

\* the class [a-z0-9\s] whose complement the replace() deletes
KeptChar(c) == c \in LowerLetters \cup Digits \cup Whitespace

\* str.replace(/[^a-z0-9\s]/g, '')
RECURSIVE stripOthers(_)
stripOthers(str) ==
    LET n == Len(str)
    IN  IF n = 0 THEN ""
        ELSE IF n = 1 THEN (IF KeptChar(str) THEN str ELSE "")
        ELSE stripOthers(SubSeq(str, 1, n \div 2))
                \o stripOthers(SubSeq(str, n \div 2 + 1, n))

\* String.prototype.trim
trim(str) ==
    LET n == Len(str)
        nonWs == {i \in 1..n : charAt(str, i) \notin Whitespace}
    IN  IF nonWs = {} THEN ""
        ELSE LET first == CHOOSE i \in nonWs : \A j \in nonWs : i <= j
                 last  == CHOOSE i \in nonWs : \A j \in nonWs : j <= i
             IN  SubSeq(str, first, last)

\* a variant that trims before it deletes the other characters
normalizeForComparison_trimFirst(str) == stripOthers(trim(toLowerCase(str)))

normalizeForComparison(str) == trim(stripOthers(toLowerCase(str)))

\* str.split(/\s+/) as the set of its pieces: the maximal runs of
\* non-whitespace, and the empty piece that split() yields for an empty
\* string and before a leading or after a trailing separator
split(str) ==
    LET n == Len(str)
        starts == {i \in 1..n : /\ charAt(str, i) \notin Whitespace
                                /\ (i = 1 \/ charAt(str, i-1) \in Whitespace)}
        endOf(i) == CHOOSE j \in i..n :
                        /\ \A k \in i..j : charAt(str, k) \notin Whitespace
                        /\ (j = n \/ charAt(str, j+1) \in Whitespace)
        runs == {SubSeq(str, i, endOf(i)) : i \in starts}
    IN  IF n = 0 \/ charAt(str, 1) \in Whitespace \/ charAt(str, n) \in Whitespace
        THEN runs \cup {""}
        ELSE runs

\* new Set(normalizeForComparison(str).split(/\s+/))
tokenSet(str) == split(normalizeForComparison(str))


(***************************************************************************)
(* Test cases.  A TestCase value is an object as JSON.parse or a literal   *)
(* of the source produces it; absent is the set of the required fields the *)
(* object lacks.  A literal of the source, and any value of the TypeScript *)
(* type, lacks none.  (A title or steps of a wrong type, such as a number, *)
(* behaves as an absent one: the method call on it raises a TypeError.)    *)
(***************************************************************************)
TestCase(id, title, steps, expectedResult) ==
    [id |-> id, title |-> title, steps |-> steps,
     expectedResult |-> expectedResult, absent |-> {}]

\* Array.prototype.join
RECURSIVE join(_, _)
join(parts, sep) ==
    IF parts = <<>> THEN ""
    ELSE IF Len(parts) = 1 THEN parts[1]
    ELSE parts[1] \o sep \o join(Tail(parts), sep)

\* ${value} in a template literal, for a string or an undefined value
interpolate(tc, field) ==
    IF field \in tc.absent THEN "undefined" ELSE tc[field]

\* the template literal ${tc.steps.join(' ')} ${tc.expectedResult}
content(tc) == join(tc.steps, " ") \o " " \o interpolate(tc, "expectedResult")


(***************************************************************************)
(* The suite store.                                                        *)
(***************************************************************************)
TC_APOLLO_001 ==
    TestCase("TC-APOLLO-001", "User can view the main dashboard",
             <<"1. Log in", "2. Navigate to the dashboard URL">>,
             "The main dashboard with widgets is displayed.")
TC_APOLLO_002 ==
    TestCase("TC-APOLLO-002", "User can log out from profile menu",
             <<"1. Click the profile icon", "2. Click \"Log Out\"">>,
             "User is redirected to the login page.")
TC_GEMINI_001 ==
    TestCase("TC-GEMINI-001", "User can log in with valid credentials",
             <<"1. Enter valid email", "2. Enter valid password",
               "3. Click \"Log In\"">>,
             "User is successfully logged in and redirected to their dashboard.")
TC_GEMINI_002 ==
    TestCase("TC-GEMINI-002", "User sees error on login with invalid password",
             <<"1. Enter valid email", "2. Enter an incorrect password",
               "3. Click \"Log In\"">>,
             "An error message \"Invalid credentials\" is shown below the password field.")
TC_VOYAGER_001 ==
    TestCase("TC-VOYAGER-001", "Generate a sales report for the last month",
             <<"1. Navigate to the \"Reports\" section",
               "2. Select \"Sales Report\"",
               "3. Set the date range to \"Last Month\"",
               "4. Click the \"Generate\" button">>,
             "A PDF of the sales report is downloaded.")

SuiteData(name, testCases) == [name |-> name, testCases |-> testCases]

\* the initial value of the object MOCK_DB: a function from the keys it has
InitialDB ==
    [id \in {"suite-proj-apollo", "suite-proj-gemini", "suite-proj-voyager"} |->
        CASE id = "suite-proj-apollo" ->
                SuiteData("Project Apollo - Core Features",
                          <<TC_APOLLO_001, TC_APOLLO_002>>)
          [] id = "suite-proj-gemini" ->
                SuiteData("Project Gemini - User Authentication",
                          <<TC_GEMINI_001, TC_GEMINI_002>>)
          [] id = "suite-proj-voyager" ->
                SuiteData("Project Voyager - Reporting Module",
                          <<TC_VOYAGER_001>>)]

\* candidates the service answers with
CAND_LOGS ==
    TestCase("TC-001", "User logs in with valid credentials",
             <<"1. Open the sign-in page",
               "2. Submit the form of a registered account">>,
             "The account home page opens.")
CAND_LOGS_SAME_CONTENT ==
    TestCase("TC-002", "User logs in with valid credentials",
             <<"1. Enter valid email", "2. Enter valid password",
               "3. Click Log In">>,
             "User is successfully logged in and redirected to their dashboard")
CAND_RESET ==
    TestCase("TC-003", "User can reset password via email",
             <<"1. Click \"Forgot password\"", "2. Enter the account email",
               "3. Open the link sent by email", "4. Choose a new password">>,
             "The password is changed and the user can log in with it.")
CAND_SALES_NEAR ==
    TestCase("TC-004", "Monthly sales report can be produced",
             <<"1. Navigate to the Reports section", "2. Select Sales Report",
               "3. Set the date range to Last Month",
               "4. Press the Generate button">>,
             "A PDF of the sales report is downloaded")
\* TC-VOYAGER-001 again, under another id
CAND_SALES_SAME ==
    TestCase("TC-007", TC_VOYAGER_001.title, TC_VOYAGER_001.steps,
             TC_VOYAGER_001.expectedResult)
CAND_CSV ==
    TestCase("TC-005", "Export the sales report to CSV",
             <<"1. Navigate to the \"Reports\" section",
               "2. Select \"Sales Report\"",
               "3. Click the \"Export to CSV\" button">>,
             "A CSV file with the report rows is saved.")
\* objects that lack a required field
CAND_NO_TITLE ==
    [id |-> "TC-006", title |-> "", steps |-> <<"1. Open the page">>,
     expectedResult |-> "The page opens.", absent |-> {"title"}]
CAND_NO_ID ==
    [id |-> "", title |-> "Profile picture can be changed",
     steps |-> <<"1. Open the profile", "2. Upload a picture">>,
     expectedResult |-> "The new picture is shown.", absent |-> {"id"}]

Candidates ==
    {CAND_LOGS, CAND_LOGS_SAME_CONTENT, CAND_RESET, CAND_SALES_NEAR, CAND_CSV,
     CAND_NO_TITLE}


\* test cases whose similarities to REF lie at and next to the thresholds:
\* REF has 4 title tokens and 20 content tokens
REF ==
    TestCase("P-0", "open the settings page",
             <<"a b c d e f g h i", "j k l m n o p q">>, "r s t")
TITLE_3_OF_4 == TestCase("P-1", "Open the settings", <<"u v">>, "w")
TITLE_4_OF_5 == TestCase("P-2", "open the settings page now", <<"u v">>, "w")
CONTENT_17_OF_20 ==
    TestCase("P-3", "close it", <<"a b c d e f g h i", "j k l m n o p">>, "q")
CONTENT_18_OF_20 ==
    TestCase("P-4", "close it", <<"a b c d e f g h i", "j k l m n o p">>, "q r")
BOTH_AT_THRESHOLD ==
    TestCase("P-5", "the settings page", <<"a b c d e f g h i">>, "j k l m n o p q")
UNRELATED == TestCase("P-6", "close it", <<"u v">>, "w")
BLANK == TestCase("P-7", "", <<>>, "")
NO_CONTENT == TestCase("P-8", "export the log", <<>>, "")

Pool ==
    {REF, TITLE_3_OF_4, TITLE_4_OF_5, CONTENT_17_OF_20, CONTENT_18_OF_20,
     BOTH_AT_THRESHOLD, UNRELATED, BLANK, NO_CONTENT}

\* TLC evaluates a constant once: the token sets of the titles and contents
\* of the model's test cases are tabulated, and tokenSetOf(str) is
\* tokenSet(str) for every str
KnownCases ==
    {TC_APOLLO_001, TC_APOLLO_002, TC_GEMINI_001, TC_GEMINI_002, TC_VOYAGER_001}
        \cup Candidates \cup Pool
KnownTexts == {tc.title : tc \in KnownCases} \cup {content(tc) : tc \in KnownCases}
TOKEN_SETS == [str \in KnownTexts |-> tokenSet(str)]
tokenSetOf(str) == IF str \in KnownTexts THEN TOKEN_SETS[str] ELSE tokenSet(str)

\* a score: numerator and denominator of intersection.size / union.size
Score(n, d) == [num |-> n, den |-> d]
Zero == Score(0, 1)

\* a variant that divides by the size of the first set
getJaccardSimilarity_overFirst(str1, str2) ==
    LET set1 == tokenSetOf(str1)
        set2 == tokenSetOf(str2)
    IN  IF Cardinality(set1) = 0 \/ Cardinality(set2) = 0
        THEN Zero
        ELSE Score(Cardinality({x \in set1 : x \in set2}), Cardinality(set1))

\* a variant whose union is the list of both sets, shared tokens twice
getJaccardSimilarity_unionAsList(str1, str2) ==
    LET set1 == tokenSetOf(str1)
        set2 == tokenSetOf(str2)
    IN  IF Cardinality(set1) = 0 \/ Cardinality(set2) = 0
        THEN Zero
        ELSE Score(Cardinality({x \in set1 : x \in set2}),
                   Cardinality(set1) + Cardinality(set2))

getJaccardSimilarity(str1, str2) ==
    LET set1 == tokenSetOf(str1)
        set2 == tokenSetOf(str2)
    IN  IF Cardinality(set1) = 0 \/ Cardinality(set2) = 0
        THEN Zero
        ELSE LET intersection == {x \in set1 : x \in set2}
                 union == set1 \cup set2
             IN  Score(Cardinality(intersection), Cardinality(union))

\* score > p/q
Above(score, p, q) == score.num * q > p * score.den
\* variants of the callback: the title threshold at 0.6, no content check,
\* thresholds that include the bound
someCallback_looseTitle(newCase, existing) ==
    IF "title" \in newCase.absent \/ "title" \in existing.absent
    THEN "TypeError"
    ELSE IF Above(getJaccardSimilarity(newCase.title, existing.title), 3, 5)
    THEN "true"
    ELSE IF "steps" \in newCase.absent \/ "steps" \in existing.absent
    THEN "TypeError"
    ELSE IF Above(getJaccardSimilarity(content(newCase), content(existing)), 17, 20)
    THEN "true"
    ELSE "false"

someCallback_titleOnly(newCase, existing) ==
    IF "title" \in newCase.absent \/ "title" \in existing.absent
    THEN "TypeError"
    ELSE IF Above(getJaccardSimilarity(newCase.title, existing.title), 3, 4)
    THEN "true"
    ELSE "false"

AtLeast(score, p, q) == score.num * q >= p * score.den
someCallback_inclusive(newCase, existing) ==
    IF "title" \in newCase.absent \/ "title" \in existing.absent
    THEN "TypeError"
    ELSE IF AtLeast(getJaccardSimilarity(newCase.title, existing.title), 3, 4)
    THEN "true"
    ELSE IF "steps" \in newCase.absent \/ "steps" \in existing.absent
    THEN "TypeError"
    ELSE IF AtLeast(getJaccardSimilarity(content(newCase), content(existing)), 17, 20)
    THEN "true"
    ELSE "false"

\* the callback of existingCases.some: "true", "false", or "TypeError" when
\* it calls a method of an undefined title or steps
someCallback(newCase, existing) ==
    IF "title" \in newCase.absent \/ "title" \in existing.absent
    THEN "TypeError"
    ELSE IF Above(getJaccardSimilarity(newCase.title, existing.title), 3, 4)
    THEN "true"
    ELSE IF "steps" \in newCase.absent \/ "steps" \in existing.absent
    THEN "TypeError"
    ELSE IF Above(getJaccardSimilarity(content(newCase), content(existing)), 17, 20)
    THEN "true"
    ELSE "false"

\* existingCases.every(...) in the place of some
RECURSIVE some_every(_, _)
some_every(newCase, existingCases) ==
    IF existingCases = <<>> THEN "true"
    ELSE LET r == someCallback(newCase, Head(existingCases))
         IN  IF r = "true" THEN some_every(newCase, Tail(existingCases)) ELSE r

\* existingCases.some(...): stops at the first member that answers true or
\* throws
RECURSIVE some(_, _)
some(newCase, existingCases) ==
    IF existingCases = <<>> THEN "false"
    ELSE LET r == someCallback(newCase, Head(existingCases))
         IN  IF r = "false" THEN some(newCase, Tail(existingCases)) ELSE r

isDuplicate(newCase, existingCases) == some(newCase, existingCases) = "true"
isDuplicateThrows(newCase, existingCases) == some(newCase, existingCases) = "TypeError"

\* JavaScript null, for a suiteId or a retrievedContext: a value that is none
\* of the model's strings
NULL == "<null>"

\* the template literal suite-custom-${Date.now()}
customSuiteId(time) == "suite-custom-" \o ToString(time)

\* if (suiteId): null and the empty string are falsy
truthy(str) == str # NULL /\ str # ""

\* MOCK_DB is an object literal: MOCK_DB[key] finds the suites stored under
\* key and also what the object inherits from Object.prototype, such as
\* MOCK_DB["constructor"], a function: a truthy value without testCases
ObjectPrototype == {"constructor"}
\* MOCK_DB[key] is truthy
defined(db, key) == key \in DOMAIN db \/ key \in ObjectPrototype
\* MOCK_DB[key].testCases is undefined: reading its length raises a TypeError
noTestCases(db, key) == key \notin DOMAIN db /\ key \in ObjectPrototype

\* the block of one test case: its four labelled lines
renderTestCase(tc) ==
    "ID: " \o tc.id \o "\nTitle: " \o tc.title
        \o "\nSteps: " \o join(tc.steps, "; ")
        \o "\nExpected Result: " \o tc.expectedResult

NO_EXISTING == "No existing test cases were found for this suite."

getRetrievedContextThrows(db, suiteId) == noTestCases(db, suiteId)

\* a variant that renders the test cases from the last to the first
getRetrievedContext_lastFirst(db, suiteId) ==
    IF ~defined(db, suiteId) THEN NO_EXISTING
    ELSE IF noTestCases(db, suiteId) THEN NULL
    ELSE IF Len(db[suiteId].testCases) = 0 THEN NO_EXISTING
    ELSE LET n == Len(db[suiteId].testCases)
         IN  join([i \in 1..n |-> renderTestCase(db[suiteId].testCases[n + 1 - i])],
                  "\n---\n")

getRetrievedContext(db, suiteId) ==
    IF ~defined(db, suiteId) THEN NO_EXISTING
    ELSE IF noTestCases(db, suiteId) THEN NULL
    ELSE IF Len(db[suiteId].testCases) = 0 THEN NO_EXISTING
    ELSE join([i \in 1..Len(db[suiteId].testCases) |->
                    renderTestCase(db[suiteId].testCases[i])], "\n---\n")

\* String.prototype.startsWith and endsWith
startsWith(str, prefix) ==
    Len(str) >= Len(prefix) /\ SubSeq(str, 1, Len(prefix)) = prefix
endsWith(str, suffix) ==
    Len(str) >= Len(suffix)
        /\ SubSeq(str, Len(str) - Len(suffix) + 1, Len(str)) = suffix

\* a variant that embeds whatever context it is given
\* (createPrompt itself: which of the two base prompts it builds, and the
\* retrieved context the gap-analysis prompt embeds)
createPrompt_anyContext(retrievedContext) ==
    IF truthy(retrievedContext)
    THEN [kind |-> "gap analysis", context |-> retrievedContext]
    ELSE [kind |-> "plain", context |-> NULL]

createPrompt(retrievedContext) ==
    IF truthy(retrievedContext) /\ ~startsWith(retrievedContext, "No existing")
    THEN [kind |-> "gap analysis", context |-> retrievedContext]
    ELSE [kind |-> "plain", context |-> NULL]

(***************************************************************************)
(* The response of the service.  The text is pre \o D \o post, where D is  *)
(* the text of a JSON document (or, for "malformed", a text that is not    *)
(* JSON, or for "empty" no text at all); D is kept as the value it parses  *)
(* to, pre and post are the characters around it.  D neither starts nor    *)
(* ends with whitespace or a backquote.                                    *)
(***************************************************************************)
JsonArray(items) == [kind |-> "array", items |-> items]
JsonOther(kind) == [kind |-> kind, items |-> <<>>]
Text(pre, doc, post) == [pre |-> pre, doc |-> doc, post |-> post]

trimStart(str) ==
    LET n == Len(str)
        nonWs == {i \in 1..n : charAt(str, i) \notin Whitespace}
    IN  IF nonWs = {} THEN ""
        ELSE SubSeq(str, CHOOSE i \in nonWs : \A j \in nonWs : i <= j, n)

trimEnd(str) ==
    LET n == Len(str)
        nonWs == {i \in 1..n : charAt(str, i) \notin Whitespace}
    IN  IF nonWs = {} THEN ""
        ELSE SubSeq(str, 1, CHOOSE i \in nonWs : \A j \in nonWs : j <= i)

\* jsonText.trim()
trimText(text) ==
    IF text.doc.kind = "empty"
    THEN Text(trim(text.pre \o text.post), text.doc, "")
    ELSE Text(trimStart(text.pre), text.doc, trimEnd(text.post))

\* a variant without the comparison with ""
isEmptyString_never(text) == FALSE
\* jsonText === "" and jsonText === "[]"
isEmptyString(text) == text.doc.kind = "empty" /\ text.pre = "" /\ text.post = ""
isEmptyArrayLiteral(text) ==
    text.doc = JsonArray(<<>>) /\ text.pre = "" /\ text.post = ""

\* a TLA+ string cannot hold a backquote: the model writes ~ for it, so FENCE
\* is the three backquotes of a code fence
FENCE == "~~~"

\* jsonText.replace(/^<fence>\n/, '').replace(/\n<three backquotes>$/, '')
stripFence(text, fence) ==
    LET open == fence \o "\n"
        pre1 == IF startsWith(text.pre, open)
                THEN SubSeq(text.pre, Len(open) + 1, Len(text.pre))
                ELSE text.pre
        post1 == IF endsWith(text.post, "\n" \o FENCE)
                 THEN SubSeq(text.post, 1, Len(text.post) - 4)
                 ELSE text.post
    IN  Text(pre1, text.doc, post1)

\* the two if statements that remove a code fence
stripFences(text) ==
    LET t1 == IF startsWith(text.pre, FENCE \o "json")
              THEN stripFence(text, FENCE \o "json") ELSE text
    IN  IF startsWith(t1.pre, FENCE) THEN stripFence(t1, FENCE) ELSE t1

\* JSON.parse accepts a document with JSON whitespace around it
JsonWhitespace(str) == \A i \in 1..Len(str) : charAt(str, i) \in {" ", "\t", "\n", "\r"}
parses(text) ==
    /\ text.doc.kind \notin {"empty", "malformed"}
    /\ JsonWhitespace(text.pre) /\ JsonWhitespace(text.post)

\* a filter that also compares a candidate with the candidates kept before it
RECURSIVE filter_againstKept(_, _)
filter_againstKept(parsedCases, existingCases) ==
    IF parsedCases = <<>> THEN <<>>
    ELSE IF isDuplicate(Head(parsedCases), existingCases)
    THEN filter_againstKept(Tail(parsedCases), existingCases)
    ELSE <<Head(parsedCases)>>
            \o filter_againstKept(Tail(parsedCases),
                                  existingCases \o <<Head(parsedCases)>>)

\* parsedCases.filter(tc => !isDuplicate(tc, existingCases))
RECURSIVE filter(_, _)
filter(parsedCases, existingCases) ==
    IF parsedCases = <<>> THEN <<>>
    ELSE (IF isDuplicate(Head(parsedCases), existingCases)
          THEN <<>> ELSE <<Head(parsedCases)>>)
            \o filter(Tail(parsedCases), existingCases)

filterThrows(parsedCases, existingCases) ==
    \E i \in 1..Len(parsedCases) : isDuplicateThrows(parsedCases[i], existingCases)

Return(value) == [how |-> "return", value |-> value]
Throw == [how |-> "throw", value |-> JsonOther("none")]

\* a variant that answers with no test case when suiteId names no suite
afterResponseText_nothingForUnknownSuite(jsonText, suiteId, db) ==
    LET trimmed == trimText(jsonText)
    IN  IF isEmptyString(trimmed) \/ isEmptyArrayLiteral(trimmed)
        THEN Return(JsonArray(<<>>))
        ELSE LET stripped == stripFences(trimmed)
             IN  IF ~parses(stripped) THEN Throw
                 ELSE LET parsedCases == stripped.doc
                      IN  IF truthy(suiteId) /\ noTestCases(db, suiteId) THEN Throw
                          ELSE IF truthy(suiteId) /\ defined(db, suiteId)
                          THEN LET existingCases == db[suiteId].testCases
                               IN  IF Len(existingCases) > 0
                                   THEN IF \/ parsedCases.kind # "array"
                                           \/ filterThrows(parsedCases.items, existingCases)
                                        THEN Throw
                                        ELSE Return(JsonArray(
                                                filter(parsedCases.items, existingCases)))
                                   ELSE Return(parsedCases)
                          ELSE IF truthy(suiteId) THEN Return(JsonArray(<<>>))
                          ELSE Return(parsedCases)

\* generateTestCasesFromText from the resolution of the await on: what the
\* call does with the response text jsonText, the store being db
afterResponseText(jsonText, suiteId, db) ==
    LET trimmed == trimText(jsonText)
    IN  IF isEmptyString(trimmed) \/ isEmptyArrayLiteral(trimmed)
        THEN Return(JsonArray(<<>>))
        ELSE LET stripped == stripFences(trimmed)
             IN  IF ~parses(stripped) THEN Throw
                 ELSE LET parsedCases == stripped.doc
                      IN  IF truthy(suiteId) /\ noTestCases(db, suiteId) THEN Throw
                          ELSE IF truthy(suiteId) /\ defined(db, suiteId)
                          THEN LET existingCases == db[suiteId].testCases
                               IN  IF Len(existingCases) > 0
                                   THEN IF \/ parsedCases.kind # "array"
                                           \/ filterThrows(parsedCases.items, existingCases)
                                        THEN Throw
                                        ELSE Return(JsonArray(
                                                filter(parsedCases.items, existingCases)))
                                   ELSE Return(parsedCases)
                          ELSE Return(parsedCases)

\* a variant that returns what it parsed, without the filter
afterResponseScreenshot_unfiltered(jsonText, suiteId, db) ==
    LET trimmed == trimText(jsonText)
    IN  IF isEmptyString(trimmed) \/ isEmptyArrayLiteral(trimmed)
        THEN Return(JsonArray(<<>>))
        ELSE LET stripped == stripFences(trimmed)
             IN  IF ~parses(stripped) THEN Throw ELSE Return(stripped.doc)

\* generateTestCasesFromScreenshot from the resolution of the await on
afterResponseScreenshot(jsonText, suiteId, db) ==
    LET trimmed == trimText(jsonText)
    IN  IF isEmptyString(trimmed) \/ isEmptyArrayLiteral(trimmed)
        THEN Return(JsonArray(<<>>))
        ELSE LET stripped == stripFences(trimmed)
             IN  IF ~parses(stripped) THEN Throw
                 ELSE LET parsedCases == stripped.doc
                      IN  IF truthy(suiteId) /\ noTestCases(db, suiteId) THEN Throw
                          ELSE IF truthy(suiteId) /\ defined(db, suiteId)
                          THEN LET existingCases == db[suiteId].testCases
                               IN  IF Len(existingCases) > 0
                                   THEN IF \/ parsedCases.kind # "array"
                                           \/ filterThrows(parsedCases.items, existingCases)
                                        THEN Throw
                                        ELSE Return(JsonArray(
                                                filter(parsedCases.items, existingCases)))
                                   ELSE Return(parsedCases)
                          ELSE Return(parsedCases)

(***************************************************************************)
(* Inputs.                                                                 *)
(***************************************************************************)
MaxTime == 1
MaxBatch == 2
MaxCalls == 3
MaxLen == 3
MaxRef == 2

SuiteNames == {"Smoke", "Regression"}
\* the suite ids the store operations and the generation calls are given
SuiteIdArgs == DOMAIN InitialDB \cup {customSuiteId(0)} \cup ObjectPrototype

RECURSIVE SeqsUpTo(_, _)
SeqsUpTo(S, n) ==
    IF n = 0 THEN {<<>>}
    ELSE LET shorter == SeqsUpTo(S, n - 1)
         IN  shorter \cup {Append(s, x) : s \in shorter, x \in S}

Documents ==
    {JsonArray(items) : items \in SeqsUpTo(Candidates, MaxBatch)}
        \cup {JsonArray(<<CAND_NO_ID>>), JsonArray(<<CAND_SALES_SAME>>)}
        \cup {JsonOther("object"), JsonOther("malformed"), JsonOther("empty")}

\* the documents also answered inside a code fence or with padding
WrappedDocuments ==
    {JsonArray(<<>>), JsonArray(<<CAND_CSV>>), JsonArray(<<CAND_SALES_NEAR, CAND_CSV>>),
     JsonOther("empty")}
Wrappers ==
    {<<" ", "\n">>, <<FENCE \o "json\n", "\n" \o FENCE>>,
     <<FENCE \o "\n", "\n" \o FENCE>>, <<FENCE \o "json", FENCE>>,
     <<FENCE \o "js\n", "\n" \o FENCE>>}

Responses ==
    {Text("", doc, "") : doc \in Documents}
        \cup {Text(w[1], doc, w[2]) : w \in Wrappers, doc \in WrappedDocuments}

(***************************************************************************)
(* State.                                                                  *)
(***************************************************************************)
VARIABLES
    MOCK_DB,            \* the suites by id
    now,                \* what Date.now() read last
    pc,                 \* the generation call: "idle", "awaiting", "returned", "thrown"
    entry,              \* "text" or "screenshot": the function called
    suiteId,            \* its argument suiteId
    retrievedContext,   \* its local retrievedContext
    prompt,             \* the prompt it sent
    resolved,           \* the suite that suiteId named when the context was retrieved
    jsonText,           \* the response text
    outcome,            \* what the call returned, or that it threw
    trace,              \* the steps the call has taken, in order
    currentSettings,    \* the provider settings
    API_KEY,            \* process.env.API_KEY, NULL where it is not set
    suites,             \* the suites the input section lists
    selectedSuiteId,    \* the suite it has selected
    hpc,                \* the observer: "off", "client", "ready" or "done"
    probe,              \* the arguments a function is applied to
    answer              \* its result; for a client of the store, the log of
                        \* the store operations called and what they returned

storeVars == <<MOCK_DB, now>>
callVars == <<pc, entry, suiteId, retrievedContext, prompt, resolved, jsonText,
             outcome, trace>>
settingsVars == <<currentSettings, API_KEY>>
uiVars == <<suites, selectedSuiteId>>
harnessVars == <<hpc, probe, answer>>
vars == <<MOCK_DB, now, pc, entry, suiteId, retrievedContext, prompt,
          resolved, jsonText, outcome, trace, currentSettings, API_KEY,
          suites, selectedSuiteId, hpc, probe, answer>>

\* LLMProvider and AppSettings, without the two Ollama fields
Gemini == "gemini"
Ollama == "ollama"
AppSettings(provider, geminiApiKey) ==
    [provider |-> provider, geminiApiKey |-> geminiApiKey]
DEFAULT_SETTINGS == AppSettings(Gemini, "")
ENV_KEY == "env-key"

\* a variant that takes the environment's key only where the key of the
\* settings is null or undefined
getGeminiClientThrows_nullish(settings, env) ==
    IF settings.geminiApiKey # NULL THEN FALSE ELSE ~truthy(env)

\* getGeminiClient throws: no key in the settings, none in the environment
getGeminiClientThrows(settings, env) ==
    ~truthy(settings.geminiApiKey) /\ ~truthy(env)

\* the steps of a call
CONTEXT_RESOLVED == "ContextResolved"
REQUEST_SENT == "RequestSent"
RESPONSE_RECEIVED == "ResponseReceived"
RETURNED == "Returned"
THROWN == "Thrown"

\* jsonText before the service has answered: the initial '', kept apart from
\* an empty answer
NoText == Text("", JsonOther("none"), "")
NoSuite == [found |-> FALSE, testCases |-> <<>>]

StoreInit == MOCK_DB = InitialDB /\ now = 0
CallInit ==
    /\ pc = "idle" /\ entry = "none" /\ suiteId = NULL
    /\ retrievedContext = NULL /\ prompt = createPrompt(NULL)
    /\ resolved = NoSuite /\ jsonText = NoText /\ outcome = Throw
    /\ trace = <<>>
\* the input section as it is mounted
INITIAL_SUITES ==
    <<[id |-> "suite-proj-apollo", name |-> "Project Apollo - Core Features"],
      [id |-> "suite-proj-gemini", name |-> "Project Gemini - User Authentication"],
      [id |-> "suite-proj-voyager", name |-> "Project Voyager - Reporting Module"]>>
UIInit == suites = INITIAL_SUITES /\ selectedSuiteId = INITIAL_SUITES[1].id
\* the settings the module starts with, in an environment that has a key
SettingsInit == currentSettings = DEFAULT_SETTINGS /\ API_KEY = ENV_KEY

Init == StoreInit /\ UIInit /\ SettingsInit /\ CallInit /\ hpc = "off" /\ probe = <<>> /\ answer = <<>>

(***************************************************************************)
(* The suite store.  Its operations are called from event handlers, which  *)
(* run to completion: none runs between the end of a generation call and   *)
(* the continuation of its caller (takeResult).  When a client observes    *)
(* the store (hpc = "client"), answer logs every call and its result, and  *)
(* the client makes at most MaxCalls calls.                                *)
(***************************************************************************)
Ret(op, arg, value) == [op |-> op, arg |-> arg, value |-> value]
returns(op, arg, value) ==
    IF hpc = "client"
    THEN /\ Len(answer) < MaxCalls
         /\ answer' = Append(answer, Ret(op, arg, value))
         /\ UNCHANGED <<hpc, probe>>
    ELSE UNCHANGED harnessVars

\* the store after registerNewSuite, id being the id it built
registered(db, id, suiteName) ==
    IF ~defined(db, id)
    THEN [k \in DOMAIN db \cup {id} |->
            IF k = id THEN SuiteData(suiteName, <<>>) ELSE db[k]]
    ELSE db

\* Date.now() never goes back: time is what it reads, now what it read last
registerNewSuite(suiteName, time) ==
    /\ pc \in {"idle", "awaiting"}
    /\ time >= now
    /\ now' = time
    /\ LET id == customSuiteId(time)
       IN  /\ MOCK_DB' = registered(MOCK_DB, id, suiteName)
           /\ returns("registerNewSuite", suiteName, [id |-> id, name |-> suiteName])
    /\ UNCHANGED callVars /\ UNCHANGED settingsVars /\ UNCHANGED uiVars

deleteSuite(id) ==
    /\ pc \in {"idle", "awaiting"}
    /\ IF defined(MOCK_DB, id)
       THEN /\ MOCK_DB' = [k \in DOMAIN MOCK_DB \ {id} |-> MOCK_DB[k]]
            /\ returns("deleteSuite", id, [ok |-> TRUE])
       ELSE /\ UNCHANGED MOCK_DB
            /\ returns("deleteSuite", id, [ok |-> FALSE])
    /\ UNCHANGED now /\ UNCHANGED callVars /\ UNCHANGED settingsVars /\ UNCHANGED uiVars

\* Object.entries(MOCK_DB) mapped to {id, name}: the own properties only.
\* The array is modelled by the set of its elements; their order, the
\* insertion order of the keys, is left out.
entries(db) == {[id |-> k, name |-> db[k].name] : k \in DOMAIN db}
getSuites ==
    /\ pc \in {"idle", "awaiting"}
    /\ returns("getSuites", NULL, entries(MOCK_DB))
    /\ UNCHANGED storeVars /\ UNCHANGED callVars /\ UNCHANGED settingsVars /\ UNCHANGED uiVars

StoreNext ==
    \/ getSuites
    \/ \E name \in SuiteNames, time \in 0..MaxTime : registerNewSuite(name, time)
    \/ \E id \in SuiteIdArgs : deleteSuite(id)

(***************************************************************************)
(* A generation call.                                                      *)
(***************************************************************************)
\* the call up to its await: context, prompt, client, request
startCall(fn, id) ==
    /\ pc = "idle"
    /\ entry' = fn
    /\ suiteId' = id
    /\ IF truthy(id) /\ getRetrievedContextThrows(MOCK_DB, id)
       THEN \* the TypeError leaves the function before its try block
            /\ pc' = "thrown"
            /\ trace' = <<THROWN>>
            /\ UNCHANGED <<retrievedContext, prompt>>
       ELSE /\ retrievedContext' =
                    IF truthy(id) THEN getRetrievedContext(MOCK_DB, id) ELSE NULL
            /\ prompt' = createPrompt(retrievedContext')
            /\ IF /\ currentSettings.provider # Ollama
                  /\ getGeminiClientThrows(currentSettings, API_KEY)
               THEN \* the catch block rethrows the error of getGeminiClient
                    /\ pc' = "thrown"
                    /\ trace' = <<CONTEXT_RESOLVED, THROWN>>
               ELSE /\ pc' = "awaiting"
                    /\ trace' = <<CONTEXT_RESOLVED, REQUEST_SENT>>
    /\ resolved' = IF truthy(id) /\ id \in DOMAIN MOCK_DB
                   THEN [found |-> TRUE, testCases |-> MOCK_DB[id].testCases]
                   ELSE NoSuite
    /\ UNCHANGED <<jsonText, outcome>>
    /\ UNCHANGED storeVars /\ UNCHANGED harnessVars /\ UNCHANGED settingsVars /\ UNCHANGED uiVars

generateTestCasesFromText(id) == startCall("text", id)
generateTestCasesFromScreenshot(id) == startCall("screenshot", id)

\* a variant that adds the test cases it returns to the suite
Respond_storesResult(text) ==
    /\ pc = "awaiting"
    /\ jsonText' = text
    /\ outcome' = IF entry = "text"
                  THEN afterResponseText(text, suiteId, MOCK_DB)
                  ELSE afterResponseScreenshot(text, suiteId, MOCK_DB)
    /\ pc' = IF outcome'.how = "return" THEN "returned" ELSE "thrown"
    /\ MOCK_DB' = IF /\ outcome'.how = "return" /\ outcome'.value.kind = "array"
                     /\ truthy(suiteId) /\ suiteId \in DOMAIN MOCK_DB
                  THEN [MOCK_DB EXCEPT ![suiteId].testCases = @ \o outcome'.value.items]
                  ELSE MOCK_DB
    /\ trace' = trace \o <<RESPONSE_RECEIVED,
                             IF outcome'.how = "return" THEN RETURNED ELSE THROWN>>
    /\ UNCHANGED <<entry, suiteId, retrievedContext, prompt, resolved, now>>
    /\ UNCHANGED harnessVars /\ UNCHANGED settingsVars /\ UNCHANGED uiVars

\* the service answers and the call runs to its end
Respond(text) ==
    /\ pc = "awaiting"
    /\ jsonText' = text
    /\ outcome' = IF entry = "text"
                  THEN afterResponseText(text, suiteId, MOCK_DB)
                  ELSE afterResponseScreenshot(text, suiteId, MOCK_DB)
    /\ pc' = IF outcome'.how = "return" THEN "returned" ELSE "thrown"
    /\ trace' = trace \o <<RESPONSE_RECEIVED,
                             IF outcome'.how = "return" THEN RETURNED ELSE THROWN>>
    /\ UNCHANGED <<entry, suiteId, retrievedContext, prompt, resolved>>
    /\ UNCHANGED storeVars /\ UNCHANGED harnessVars /\ UNCHANGED settingsVars /\ UNCHANGED uiVars

\* a variant that gives no test cases when the request fails
ServiceFails_returnsNothing ==
    /\ pc = "awaiting"
    /\ pc' = "returned"
    /\ outcome' = Return(JsonArray(<<>>))
    /\ trace' = Append(trace, RETURNED)
    /\ UNCHANGED <<entry, suiteId, retrievedContext, prompt, resolved, jsonText>>
    /\ UNCHANGED storeVars /\ UNCHANGED harnessVars /\ UNCHANGED settingsVars /\ UNCHANGED uiVars

\* a variant that sends the request again when it fails
ServiceFails_retries ==
    /\ pc = "awaiting"
    /\ pc' = "awaiting"
    /\ trace' = Append(trace, REQUEST_SENT)
    /\ UNCHANGED <<entry, suiteId, retrievedContext, prompt, resolved, jsonText, outcome>>
    /\ UNCHANGED storeVars /\ UNCHANGED harnessVars /\ UNCHANGED settingsVars /\ UNCHANGED uiVars

\* the request fails (the network, the service): the await rejects and the
\* catch block rethrows
ServiceFails ==
    /\ pc = "awaiting"
    /\ pc' = "thrown"
    /\ trace' = Append(trace, THROWN)
    /\ UNCHANGED <<entry, suiteId, retrievedContext, prompt, resolved, jsonText, outcome>>
    /\ UNCHANGED storeVars /\ UNCHANGED harnessVars /\ UNCHANGED settingsVars /\ UNCHANGED uiVars

\* the caller takes the result or the error: the call is over
takeResult ==
    /\ pc \in {"returned", "thrown"}
    /\ pc' = "idle" /\ entry' = "none" /\ suiteId' = NULL
    /\ retrievedContext' = NULL /\ prompt' = createPrompt(NULL)
    /\ resolved' = NoSuite /\ jsonText' = NoText /\ outcome' = Throw
    /\ trace' = <<>>
    /\ UNCHANGED storeVars /\ UNCHANGED harnessVars /\ UNCHANGED settingsVars /\ UNCHANGED uiVars

CallNext ==
    \/ \E id \in SuiteIdArgs \cup {NULL} : generateTestCasesFromText(id)
    \/ \E id \in SuiteIdArgs \cup {NULL} : generateTestCasesFromScreenshot(id)
    \/ \E text \in Responses : Respond(text)
    \/ ServiceFails
    \/ takeResult

Next == StoreNext \/ CallNext

Spec == Init /\ [][Next]_vars

\* The settings change between calls or while a call waits; a call reads
\* them before its request.
updateGenAISettings(settings) ==
    /\ pc \in {"idle", "awaiting"}
    /\ currentSettings' = settings
    /\ UNCHANGED API_KEY /\ UNCHANGED uiVars
    /\ UNCHANGED storeVars /\ UNCHANGED callVars /\ UNCHANGED harnessVars

Settings == {AppSettings(p, k) : p \in {Gemini, Ollama}, k \in {"", "settings-key"}}
SettingsResponses ==
    {Text("", doc, "") :
        doc \in {JsonOther("empty"), JsonArray(<<>>), JsonArray(<<CAND_CSV>>),
                  JsonArray(<<CAND_SALES_NEAR>>), JsonArray(<<CAND_SALES_SAME>>),
                  JsonOther("object"), JsonOther("malformed")}}
        \cup {Text(w[1], JsonArray(<<CAND_SALES_NEAR, CAND_CSV>>), w[2]) : w \in Wrappers}

InitSettings ==
    /\ StoreInit /\ UIInit /\ CallInit
    /\ currentSettings = DEFAULT_SETTINGS
    /\ API_KEY \in {NULL, ENV_KEY}
    /\ hpc = "off" /\ probe = <<>> /\ answer = <<>>

SettingsNext ==
    \/ \E settings \in Settings : updateGenAISettings(settings)
    \/ \E id \in SuiteIdArgs \cup {NULL} : generateTestCasesFromText(id)
    \/ \E id \in SuiteIdArgs \cup {NULL} : generateTestCasesFromScreenshot(id)
    \/ \E text \in SettingsResponses : Respond(text)
    \/ ServiceFails
    \/ takeResult

SpecSettings == InitSettings /\ [][SettingsNext]_vars

(***************************************************************************)
(* The input section of the UI.  Its controls are disabled while a         *)
(* generation call is loading: its handlers run when no call is under way. *)
(***************************************************************************)
MaxSaves == 2
NewSuiteNames == {"Smoke", " Regression ", " "}

\* Save in the new-suite form; time1 is what Date.now() reads in the
\* handler and time2 what it reads in registerNewSuite, called with the id
\* the handler built
handleSaveNewSuite(newSuiteName, time1, time2) ==
    /\ pc = "idle"
    /\ trim(newSuiteName) # ""
    /\ Len(suites) < Len(INITIAL_SUITES) + MaxSaves
    /\ now <= time1 /\ time1 <= time2
    /\ now' = time2
    /\ LET newSuiteId == customSuiteId(time1)
           newSuite == [id |-> newSuiteId, name |-> trim(newSuiteName)]
       IN  /\ suites' = Append(suites, newSuite)
           /\ selectedSuiteId' = newSuiteId
           /\ MOCK_DB' = registered(MOCK_DB, customSuiteId(time2), newSuiteId)
    /\ UNCHANGED callVars /\ UNCHANGED settingsVars /\ UNCHANGED harnessVars

\* the suite selector
selectSuite(id) ==
    /\ pc = "idle"
    /\ \E i \in 1..Len(suites) : suites[i].id = id
    /\ selectedSuiteId' = id
    /\ UNCHANGED suites
    /\ UNCHANGED storeVars /\ UNCHANGED callVars
    /\ UNCHANGED settingsVars /\ UNCHANGED harnessVars

\* Generate: handleGenerate calls the entry point of the input mode with
\* the selected suite
handleGenerateClick(fn) == startCall(fn, selectedSuiteId)

\* handleGenerate after the call has returned result for suiteId
generationStatus(result, id) ==
    IF result.kind = "array" /\ Len(result.items) = 0 /\ truthy(id)
    THEN "no_new_cases_needed"
    ELSE "success"

InitUI ==
    /\ StoreInit /\ UIInit /\ SettingsInit /\ CallInit
    /\ hpc = "off" /\ probe = <<>> /\ answer = <<>>

UINext ==
    \/ \E name \in NewSuiteNames, time1, time2 \in 0..MaxTime :
            handleSaveNewSuite(name, time1, time2)
    \/ \E i \in 1..Len(suites) : selectSuite(suites[i].id)
    \/ \E fn \in {"text", "screenshot"} : handleGenerateClick(fn)
    \/ \E text \in SettingsResponses : Respond(text)
    \/ ServiceFails
    \/ takeResult

SpecUI == InitUI /\ [][UINext]_vars

\* a client of the store calls its operations and keeps what they return
InitStore == StoreInit /\ UIInit /\ SettingsInit /\ CallInit /\ hpc = "client" /\ probe = <<>> /\ answer = <<>>
SpecStore == InitStore /\ [][StoreNext]_vars

(***************************************************************************)
(* The similarity engine and the deduplicator applied to arguments.        *)
(***************************************************************************)
Alphabet == {"a", "B", " ", "!"}

RECURSIVE StringsUpTo(_)
StringsUpTo(n) ==
    IF n = 0 THEN {""}
    ELSE LET shorter == StringsUpTo(n - 1)
         IN  shorter \cup {s \o c : s \in shorter, c \in Alphabet}

InitSim ==
    /\ StoreInit /\ UIInit /\ SettingsInit /\ CallInit
    /\ hpc = "ready"
    /\ probe \in [str1 : StringsUpTo(MaxLen), str2 : StringsUpTo(MaxLen)]
    /\ answer = Zero

applySimilarity ==
    /\ hpc = "ready"
    /\ hpc' = "done"
    /\ answer' = getJaccardSimilarity(probe.str1, probe.str2)
    /\ UNCHANGED probe /\ UNCHANGED storeVars /\ UNCHANGED callVars /\ UNCHANGED settingsVars /\ UNCHANGED uiVars

SpecSim == InitSim /\ [][applySimilarity]_vars

InitDup ==
    /\ StoreInit /\ UIInit /\ SettingsInit /\ CallInit
    /\ hpc = "ready"
    /\ probe \in [newCase : Pool, existingCases : SeqsUpTo(Pool, MaxRef)]
    /\ answer = FALSE

applyIsDuplicate ==
    /\ hpc = "ready"
    /\ hpc' = "done"
    /\ answer' = isDuplicate(probe.newCase, probe.existingCases)
    /\ UNCHANGED probe /\ UNCHANGED storeVars /\ UNCHANGED callVars /\ UNCHANGED settingsVars /\ UNCHANGED uiVars

SpecDup == InitDup /\ [][applyIsDuplicate]_vars

\* normalizeForComparison applied to a string
NormAlphabet == Alphabet \cup {"7", "\t"}

RECURSIVE StringsOver(_, _)
StringsOver(chars, n) ==
    IF n = 0 THEN {""}
    ELSE LET shorter == StringsOver(chars, n - 1)
         IN  shorter \cup {s \o c : s \in shorter, c \in chars}

InitNorm ==
    /\ StoreInit /\ UIInit /\ SettingsInit /\ CallInit
    /\ hpc = "ready"
    /\ probe \in [str : StringsOver(NormAlphabet, MaxLen)]
    /\ answer = ""

applyNormalize ==
    /\ hpc = "ready"
    /\ hpc' = "done"
    /\ answer' = normalizeForComparison(probe.str)
    /\ UNCHANGED probe /\ UNCHANGED storeVars /\ UNCHANGED callVars /\ UNCHANGED settingsVars /\ UNCHANGED uiVars

SpecNorm == InitNorm /\ [][applyNormalize]_vars

\* getRetrievedContext applied to a suite of two test cases, the first one
\* drawn from test cases whose fields hold the characters of the template
MaxSteps == 2
RenderIds == {"TC-1", ""}
RenderTitles == {"Export", "", "Export\nSteps: none"}
RenderSteps == {"1. Open", "", "1. Open; 2. Save"}
RenderResults == {"Saved.", "Saved.\n---\nID: TC-2"}
RenderCases ==
    {TestCase(id, title, steps, expectedResult) :
        id \in RenderIds, title \in RenderTitles,
        steps \in SeqsUpTo(RenderSteps, MaxSteps),
        expectedResult \in RenderResults}

RENDER_SUITE == "suite-render"
RenderDB(tc) == RENDER_SUITE :> SuiteData("Render", <<tc, TC_VOYAGER_001>>)

InitRender ==
    /\ StoreInit /\ UIInit /\ SettingsInit /\ CallInit
    /\ hpc = "ready"
    /\ probe \in [tc : RenderCases]
    /\ answer = ""

applyGetRetrievedContext ==
    /\ hpc = "ready"
    /\ hpc' = "done"
    /\ answer' = getRetrievedContext(RenderDB(probe.tc), RENDER_SUITE)
    /\ UNCHANGED probe /\ UNCHANGED storeVars /\ UNCHANGED callVars /\ UNCHANGED settingsVars /\ UNCHANGED uiVars

SpecRender == InitRender /\ [][applyGetRetrievedContext]_vars

(***************************************************************************)
(* Properties.                                                             *)
(***************************************************************************)
\* the response of a finished call as the call reads it: trimmed, without
\* its code fence
payload == stripFences(trimText(jsonText))
emptyPayload ==
    isEmptyString(trimText(jsonText)) \/ isEmptyArrayLiteral(trimText(jsonText))
\* the candidates the call parsed
parsed == IF emptyPayload THEN JsonArray(<<>>) ELSE payload.doc
\* the call received a response (it did not end on a failed request)
responded == pc = "returned" \/ (pc = "thrown" /\ jsonText # NoText)
wellFormed(doc) ==
    doc.kind = "array" /\ \A i \in 1..Len(doc.items) : doc.items[i].absent = {}
\* the suite that suiteId names is in the store, with test cases
suitePresent ==
    /\ truthy(suiteId) /\ suiteId \in DOMAIN MOCK_DB
    /\ Len(MOCK_DB[suiteId].testCases) > 0
Occurs(tc, cases) == \E i \in 1..Len(cases) : cases[i] = tc
NoTokens(str) == normalizeForComparison(str) = ""

\* C1: getJaccardSimilarity(a, b) is 0.0 whenever a or b normalizes to no
\* tokens, also when both do.
C1_NoTokensScoreZero ==
    hpc = "done" /\ (NoTokens(probe.str1) \/ NoTokens(probe.str2))
        => answer.num = 0

\* C2 as stated: with the suite that holds 'User can log in with valid
\* credentials', a candidate titled 'User logs in with valid credentials'
\* is filtered out and one titled 'User can reset password via email'
\* passes through.
LOGS_TITLE == "User logs in with valid credentials"
RESET_TITLE == "User can reset password via email"
C2_scenario ==
    /\ pc = "returned" /\ suiteId = "suite-proj-gemini" /\ suitePresent
    /\ ~emptyPayload /\ wellFormed(parsed)
C2_LogsFilteredResetKept ==
    C2_scenario =>
        \A i \in 1..Len(parsed.items) :
            /\ parsed.items[i].title = LOGS_TITLE
                    => ~Occurs(parsed.items[i], outcome.value.items)
            /\ parsed.items[i].title = RESET_TITLE
                    => Occurs(parsed.items[i], outcome.value.items)

\* C2 amended: neither title is more than 0.75 similar to a title of the
\* suite (the first scores 5/8), so a candidate with either title is
\* filtered out exactly when its combined content is more than 0.85 similar
\* to that of a test case of the suite.
contentMatches(tc, cases) ==
    \E i \in 1..Len(cases) :
        Above(getJaccardSimilarity(content(tc), content(cases[i])), 17, 20)
C2_FilteredByContentOnly ==
    C2_scenario =>
        /\ getJaccardSimilarity(LOGS_TITLE, TC_GEMINI_001.title) = Score(5, 8)
        /\ \A i \in 1..Len(parsed.items) :
                parsed.items[i].title \in {LOGS_TITLE, RESET_TITLE}
                    => (Occurs(parsed.items[i], outcome.value.items)
                            <=> ~contentMatches(parsed.items[i],
                                                MOCK_DB[suiteId].testCases))
C2_witness ==
    /\ C2_scenario
    /\ parsed.items = <<CAND_LOGS, CAND_LOGS_SAME_CONTENT>>
    /\ outcome.value.items = <<CAND_LOGS>>

\* C3: any two calls of registerNewSuite return distinct ids, and both
\* suites are in the store afterwards.
C3_DistinctSuiteIds ==
    \A i \in 1..Len(answer) : \A j \in 1..Len(answer) :
        (/\ hpc = "client" /\ j = i + 1 /\ j = Len(answer)
         /\ answer[i].op = "registerNewSuite" /\ answer[j].op = "registerNewSuite")
            => /\ answer[i].value.id # answer[j].value.id
               /\ {answer[i].value.id, answer[j].value.id} \subseteq DOMAIN MOCK_DB

\* C4: a response that is not a well-formed array of test cases makes the
\* call fail, whatever the suiteId; the call never returns such a payload.
C4_MalformedPayloadThrows ==
    pc = "returned" => emptyPayload \/ wellFormed(parsed)

\* C5: deleting the suite while the call awaits the service does not change
\* the result: it is the result of deduplicating against the test cases the
\* suite had when the call resolved it.
storeAtResolution ==
    IF resolved.found
    THEN [k \in DOMAIN MOCK_DB \cup {suiteId} |->
            IF k = suiteId THEN SuiteData("", resolved.testCases) ELSE MOCK_DB[k]]
    ELSE [k \in DOMAIN MOCK_DB \ {suiteId} |-> MOCK_DB[k]]
C5_DeletionInFlightIgnored ==
    responded /\ resolved.found
        => outcome = IF entry = "text"
                     THEN afterResponseText(jsonText, suiteId, storeAtResolution)
                     ELSE afterResponseScreenshot(jsonText, suiteId, storeAtResolution)

\* C6: isDuplicate holds exactly when some member of the reference has a
\* title similarity above 0.75 to the candidate, or a similarity above 0.85
\* of the combined contents, the steps and the expected result joined by
\* single spaces.
combined(tc) == join(Append(tc.steps, tc.expectedResult), " ")
titleAbove(tc, e) == Above(getJaccardSimilarity(tc.title, e.title), 3, 4)
combinedAbove(tc, e) == Above(getJaccardSimilarity(combined(tc), combined(e)), 17, 20)
C6_IsDuplicateRule ==
    hpc = "done" =>
        (answer <=> \E i \in 1..Len(probe.existingCases) :
                        \/ titleAbove(probe.newCase, probe.existingCases[i])
                        \/ combinedAbove(probe.newCase, probe.existingCases[i]))
C6_witness ==
    /\ hpc = "done" /\ answer
    /\ Len(probe.existingCases) = 2
    /\ ~titleAbove(probe.newCase, probe.existingCases[1])
    /\ ~combinedAbove(probe.newCase, probe.existingCases[1])
    /\ ~titleAbove(probe.newCase, probe.existingCases[2])
    /\ combinedAbove(probe.newCase, probe.existingCases[2])

\* C7: the thresholds are exclusive.  With i shared tokens out of u, a
\* candidate is not flagged when no member has 4i > 3u for the titles or
\* 20i > 17u for the contents, also when some member has exactly 4i = 3u or
\* 20i = 17u; it is flagged when some member is above either bound.
shared(a, b) == Cardinality(tokenSet(a) \cap tokenSet(b))
either(a, b) == Cardinality(tokenSet(a) \cup tokenSet(b))
C7_above(tc, e) ==
    \/ 4 * shared(tc.title, e.title) > 3 * either(tc.title, e.title)
    \/ 20 * shared(content(tc), content(e)) > 17 * either(content(tc), content(e))
C7_ThresholdsExclusive ==
    hpc = "done" =>
        LET members == {probe.existingCases[i] : i \in 1..Len(probe.existingCases)}
        IN  /\ (\A e \in members : ~C7_above(probe.newCase, e)) => ~answer
            /\ (\E e \in members : C7_above(probe.newCase, e)) => answer
C7_witness ==
    /\ hpc = "done" /\ ~answer
    /\ probe.existingCases = <<REF>>
    /\ 4 * shared(probe.newCase.title, REF.title)
            = 3 * either(probe.newCase.title, REF.title)
    /\ shared(content(probe.newCase), content(REF)) = 17
    /\ either(content(probe.newCase), content(REF)) = 20

\* C8: deduplication returns exactly the candidates that are no duplicates of
\* the suite's test cases, unmodified and in their order; whether one is
\* kept does not depend on the others in the batch.
keptIndices ==
    {i \in 1..Len(parsed.items) :
        ~isDuplicate(parsed.items[i], MOCK_DB[suiteId].testCases)}
C8_FilterKeepsNonDuplicates ==
    pc = "returned" /\ suitePresent /\ ~emptyPayload =>
        LET kept == keptIndices
            before(i) == Cardinality({j \in kept : j < i})
        IN  /\ outcome.value.kind = "array"
            /\ Len(outcome.value.items) = Cardinality(kept)
            /\ \A i \in kept : outcome.value.items[before(i) + 1] = parsed.items[i]
C8_witness ==
    /\ pc = "returned" /\ suitePresent /\ suiteId = "suite-proj-voyager"
    /\ parsed.items = <<CAND_CSV, CAND_CSV>>
    /\ outcome.value.items = <<CAND_CSV, CAND_CSV>>

\* C9: with no suite id, with a suite id that names no suite, or with a
\* suite that has no test cases, the call returns the parsed candidates
\* unchanged.
C9_PassThrough ==
    pc = "returned"
        /\ (~truthy(suiteId) \/ ~resolved.found \/ Len(resolved.testCases) = 0)
        => outcome.value = parsed
C9_witness ==
    /\ pc = "returned" /\ truthy(suiteId) /\ ~resolved.found
    /\ parsed.items = <<CAND_SALES_NEAR, CAND_CSV>>
    /\ outcome.value.items = <<CAND_SALES_NEAR, CAND_CSV>>

\* C10: with the suite whose only test case is 'Generate a sales report for
\* the last month', a response of two candidates, one nearly identical in
\* content to that test case and one about an export to CSV, makes the call
\* return exactly the CSV candidate.
C10_scenario ==
    /\ pc = "returned" /\ suiteId = "suite-proj-voyager" /\ suitePresent
    /\ MOCK_DB[suiteId].testCases = <<TC_VOYAGER_001>>
    /\ ~emptyPayload /\ parsed.kind = "array"
    /\ parsed.items \in {<<CAND_SALES_NEAR, CAND_CSV>>, <<CAND_CSV, CAND_SALES_NEAR>>}
C10_OnlyCsvCandidateReturned ==
    C10_scenario => outcome.value = JsonArray(<<CAND_CSV>>)
C10_witness ==
    /\ C10_scenario
    /\ shared(content(CAND_SALES_NEAR), content(TC_VOYAGER_001)) = 24
    /\ either(content(CAND_SALES_NEAR), content(TC_VOYAGER_001)) = 26
    /\ outcome.value.items = <<CAND_CSV>>

\* the call of the store that returned last, for its client
lastCall == answer[Len(answer)]
returned(op) == hpc = "client" /\ Len(answer) > 0 /\ lastCall.op = op

\* C11: once registerNewSuite(name) has returned {id, name}, the store holds
\* under id a suite with that name and no test cases, and getSuites lists
\* {id, name}.
C11_RegisteredSuiteStored ==
    returned("registerNewSuite") =>
        /\ lastCall.value.id \in DOMAIN MOCK_DB
        /\ MOCK_DB[lastCall.value.id] = SuiteData(lastCall.arg, <<>>)
        /\ [id |-> lastCall.value.id, name |-> lastCall.arg] \in entries(MOCK_DB)

\* C12: deleteSuite(id) returns true exactly when a suite with that id was in
\* the store before the call; after the call none is; when none was, the
\* call returns false and leaves the store as it was.
C12_deleted == Len(answer') = Len(answer) + 1 /\ answer'[Len(answer')].op = "deleteSuite"
C12_DeleteSuiteResult ==
    [][C12_deleted =>
        LET call == answer'[Len(answer')]
            existed == call.arg \in DOMAIN MOCK_DB
        IN  /\ call.value.ok <=> existed
            /\ call.arg \notin DOMAIN MOCK_DB'
            /\ ~existed => MOCK_DB' = MOCK_DB]_vars

\* C13: a call that fails, by its request or by a response that does not
\* parse, ends with an error thrown; an empty sequence is only ever the
\* return value of a call whose response was received and read.
over == pc \in {"returned", "thrown"}
requestFailed == over /\ jsonText = NoText
unparsable == over /\ jsonText # NoText /\ ~emptyPayload /\ ~parses(payload)
blank(str) == \A i \in 1..Len(str) : charAt(str, i) \in Whitespace
C14_nothingAnswered ==
    /\ over /\ jsonText # NoText
    /\ jsonText.doc \in {JsonOther("empty"), JsonArray(<<>>)}
    /\ blank(jsonText.pre) /\ blank(jsonText.post)
C14_EmptyResponseReturnsNothing ==
    C14_nothingAnswered => pc = "returned" /\ outcome = Return(JsonArray(<<>>))
C14_witness ==
    /\ C14_nothingAnswered /\ suitePresent
    /\ jsonText = Text(" ", JsonOther("empty"), "\n")
    /\ pc = "returned" /\ outcome.value.items = <<>>

\* C15: a response that is a well-formed array of test cases inside a code
\* fence, its opening line with or without a language tag, gives the call
\* the outcome that the array alone gives it.
LanguageTags == {"", "json", "js"}
fenced(text) ==
    /\ \E tag \in LanguageTags : text.pre = FENCE \o tag \o "\n"
    /\ text.post = "\n" \o FENCE
alone(text) == Text("", text.doc, "")
C15_FenceStripped ==
    over /\ jsonText # NoText /\ fenced(jsonText) /\ wellFormed(jsonText.doc)
        => outcome = IF entry = "text"
                     THEN afterResponseText(alone(jsonText), suiteId, MOCK_DB)
                     ELSE afterResponseScreenshot(alone(jsonText), suiteId, MOCK_DB)

\* C16: isDuplicate raises no error for well-typed test cases; the content
\* of a candidate without steps and expected result scores 0.0 against every
\* member whose content has tokens; and such a candidate is no duplicate
\* unless a title makes it one.
C16_EmptyContentNeverDuplicate ==
    hpc = "done" =>
        LET new == probe.newCase
            members == {probe.existingCases[i] : i \in 1..Len(probe.existingCases)}
        IN  /\ ~isDuplicateThrows(new, probe.existingCases)
            /\ NoTokens(content(new)) =>
                /\ \A e \in members :
                        ~NoTokens(content(e)) =>
                            getJaccardSimilarity(content(new), content(e)).num = 0
                /\ (\A e \in members : ~titleAbove(new, e)) => ~answer

\* C17: the context a call retrieves for its suite id is the sentinel exactly
\* when the id names no suite of the store or the suite has no test cases.
C17_SentinelIffNoTestCases ==
    pc # "idle" /\ truthy(suiteId) =>
        (retrievedContext = NO_EXISTING
            <=> (~resolved.found \/ Len(resolved.testCases) = 0))

\* C18: no step of a generation call, of either entry point, successful or
\* failing, changes the suite store: its ids, names and test cases.
C18_CallLeavesStore ==
    [][callVars' # callVars => MOCK_DB' = MOCK_DB]_vars
C18_witness ==
    /\ pc = "returned" /\ entry = "screenshot" /\ suitePresent
    /\ suiteId = "suite-proj-voyager"
    /\ parsed.items = <<CAND_SALES_NEAR, CAND_CSV>>
    /\ outcome.value.items = <<CAND_CSV>>
    /\ MOCK_DB = InitialDB

\* C19: getJaccardSimilarity(a, b) = getJaccardSimilarity(b, a) for all
\* strings a and b.
C19_Symmetric ==
    hpc = "done" /\ DOMAIN probe = {"str1", "str2"}
        => answer = getJaccardSimilarity(probe.str2, probe.str1)
C19_witness ==
    /\ hpc = "done" /\ DOMAIN probe = {"str1", "str2"}
    /\ probe.str1 = "a B" /\ probe.str2 = "!a"
    /\ answer = Score(1, 2)

\* C20: getJaccardSimilarity(s, s) = 1.0 for every string s that has a token
\* once normalized.
C20_SelfSimilarityOne ==
    (/\ hpc = "done" /\ DOMAIN probe = {"str1", "str2"}
     /\ probe.str1 = probe.str2 /\ ~NoTokens(probe.str1))
        => answer.num = answer.den /\ answer.den > 0
C20_witness ==
    /\ hpc = "done" /\ DOMAIN probe = {"str1", "str2"}
    /\ probe.str1 = "B a" /\ probe.str2 = "B a"
    /\ answer = Score(2, 2)

\* C21: normalizeForComparison is idempotent, and its result holds only
\* lowercase letters, digits and whitespace, with no whitespace at its
\* start or end.
C21_NormalizeIdempotent ==
    hpc = "done" /\ DOMAIN probe = {"str"} =>
        LET n == Len(answer)
        IN  /\ normalizeForComparison(answer) = answer
            /\ \A i \in 1..n :
                    charAt(answer, i) \in LowerLetters \cup Digits \cup Whitespace
            /\ n > 0 => /\ charAt(answer, 1) \notin Whitespace
                        /\ charAt(answer, n) \notin Whitespace
C21_witness ==
    /\ hpc = "done" /\ DOMAIN probe = {"str"}
    /\ probe.str = "! B" /\ answer = "b"

\* The reader that matches the context builder: it splits the context on
\* the separator line, a block on its four labels, and the steps on "; ".
\* String.prototype.indexOf, counting from 1, 0 when there is no occurrence
indexOf(str, pattern, from) ==
    LET hits == {i \in from..(Len(str) - Len(pattern) + 1) :
                    SubSeq(str, i, i + Len(pattern) - 1) = pattern}
    IN  IF hits = {} THEN 0 ELSE CHOOSE i \in hits : \A j \in hits : i <= j

RECURSIVE splitOn(_, _)
splitOn(str, sep) ==
    LET i == indexOf(str, sep, 1)
    IN  IF i = 0 THEN <<str>>
        ELSE <<SubSeq(str, 1, i - 1)>>
                \o splitOn(SubSeq(str, i + Len(sep), Len(str)), sep)

ID_LABEL == "ID: "
TITLE_LABEL == "\nTitle: "
STEPS_LABEL == "\nSteps: "
RESULT_LABEL == "\nExpected Result: "
BLOCK_SEPARATOR == "\n---\n"
STEP_DELIMITER == "; "

\* the fields of one block; a line without steps reads as no steps
readBlock(block) ==
    LET t == indexOf(block, TITLE_LABEL, 1)
        s == indexOf(block, STEPS_LABEL, t + Len(TITLE_LABEL))
        r == indexOf(block, RESULT_LABEL, s + Len(STEPS_LABEL))
        stepsLine == SubSeq(block, s + Len(STEPS_LABEL), r - 1)
    IN  [id |-> SubSeq(block, Len(ID_LABEL) + 1, t - 1),
         title |-> SubSeq(block, t + Len(TITLE_LABEL), s - 1),
         steps |-> IF stepsLine = "" THEN <<>>
                   ELSE splitOn(stepsLine, STEP_DELIMITER),
         expectedResult |->
            SubSeq(block, r + Len(RESULT_LABEL), Len(block))]

rendered == hpc = "done" /\ DOMAIN probe = {"tc"}

\* C22: reading the rendered context back recovers one block per test
\* case, and from the block of a test case its id, its title, the number
\* of its steps and its expected result.
C22_RoundTrip ==
    rendered =>
        LET blocks == splitOn(answer, BLOCK_SEPARATOR)
            read == readBlock(blocks[1])
        IN  /\ Len(blocks) = 2
            /\ read.id = probe.tc.id
            /\ read.title = probe.tc.title
            /\ Len(read.steps) = Len(probe.tc.steps)
            /\ read.expectedResult = probe.tc.expectedResult
\* the round trip does hold for test cases whose fields hold no label, no
\* separator and no delimiter and whose steps are not empty strings
C22_plain ==
    rendered /\ probe.tc.title \in {"Export", ""}
             /\ probe.tc.expectedResult = "Saved."
             /\ (\A i \in 1..Len(probe.tc.steps) : probe.tc.steps[i] = "1. Open")
        => LET blocks == splitOn(answer, BLOCK_SEPARATOR)
               read == readBlock(blocks[1])
           IN  /\ Len(blocks) = 2
               /\ read.id = probe.tc.id
               /\ read.title = probe.tc.title
               /\ read.steps = probe.tc.steps
               /\ read.expectedResult = probe.tc.expectedResult

\* the requests a call has sent
sent(steps) == Cardinality({i \in DOMAIN steps : steps[i] = REQUEST_SENT})
missingCredential ==
    /\ currentSettings.provider = Gemini
    /\ ~truthy(currentSettings.geminiApiKey)
    /\ ~truthy(API_KEY)

\* C23: a generation call made with the Gemini provider selected and no
\* API key in the settings or in the environment ends at once with an
\* error for its caller; it sends no request, then or later.
C23_MissingCredentialFails ==
    [][/\ pc = "idle" /\ pc' # "idle" /\ missingCredential =>
            /\ pc' = "thrown" /\ outcome'.how = "throw"
            /\ sent(trace') = 0
       /\ pc = "thrown" /\ sent(trace) = 0 =>
            /\ pc' \in {"thrown", "idle"}
            /\ sent(trace') = 0]_vars
C23_witness ==
    /\ missingCredential
    /\ pc = "thrown" /\ outcome.how = "throw"
    /\ trace = <<CONTEXT_RESOLVED, THROWN>>

ORDER == <<CONTEXT_RESOLVED, REQUEST_SENT, RESPONSE_RECEIVED>>
ended(steps) == steps # <<>> /\ steps[Len(steps)] \in {RETURNED, THROWN}
\* the steps before the end of the call
stepsTaken(steps) == IF ended(steps) THEN SubSeq(steps, 1, Len(steps) - 1) ELSE steps

\* C24: the steps of a call are taken in the order context resolved,
\* request sent, response received, each at most once, so that the service
\* is invoked at most once; the call ends once, by a return when all three
\* steps are done or by an error, and takes no step after its end.
C24_OneOutcomeInOrder ==
    LET steps == stepsTaken(trace)
    IN  /\ Len(steps) <= Len(ORDER)
        /\ \A i \in 1..Len(steps) : steps[i] = ORDER[i]
        /\ sent(trace) <= 1
        /\ pc = "returned" <=> ended(trace) /\ trace[Len(trace)] = RETURNED
        /\ pc = "thrown" <=> ended(trace) /\ trace[Len(trace)] = THROWN
        /\ pc = "returned" => steps = ORDER /\ outcome.how = "return"
        /\ pc = "awaiting" <=> trace = <<CONTEXT_RESOLVED, REQUEST_SENT>>
C24_witness ==
    /\ pc = "thrown" /\ unparsable
    /\ trace = ORDER \o <<THROWN>>

\* the context builder's text for a sequence of test cases
blocks(cases) ==
    join([i \in 1..Len(cases) |-> renderTestCase(cases[i])], BLOCK_SEPARATOR)

\* C25: the prompt of a request is the gap-analysis prompt, with the
\* retrieved context in it, exactly when the call was given a suite id that
\* names a suite with at least one test case; otherwise it is the plain
\* prompt, with no context in it, and no prompt embeds the sentinel.
C25_GapAnalysisIffContext ==
    sent(trace) > 0 =>
        LET covered == /\ truthy(suiteId) /\ resolved.found
                       /\ Len(resolved.testCases) >= 1
        IN  /\ prompt.kind = "gap analysis" <=> covered
            /\ covered => prompt.context = blocks(resolved.testCases)
            /\ ~covered => prompt.kind = "plain" /\ prompt.context = NULL
            /\ prompt.context # NO_EXISTING
C25_witness ==
    /\ pc = "awaiting" /\ sent(trace) = 1
    /\ suiteId = customSuiteId(0) /\ resolved.found /\ resolved.testCases = <<>>
    /\ retrievedContext = NO_EXISTING
    /\ prompt.kind = "plain"

\* C26: the context retrieved for a suite of n >= 1 test cases is n blocks
\* with the line --- between them; the i-th block is the four lines ID,
\* Title, Steps (the steps with "; " between them) and Expected Result of
\* the i-th test case of the suite.  The context is thus a function of the
\* test cases and their order: the same suite content gives the same text.
C26_ContextBlocks ==
    pc # "idle" /\ truthy(suiteId) /\ resolved.found
                /\ Len(resolved.testCases) >= 1 =>
        LET cases == resolved.testCases
            parts == splitOn(retrievedContext, BLOCK_SEPARATOR)
        IN  /\ Len(parts) = Len(cases)
            /\ \A i \in 1..Len(cases) :
                    splitOn(parts[i], "\n") =
                        <<"ID: " \o cases[i].id,
                          "Title: " \o cases[i].title,
                          "Steps: " \o join(cases[i].steps, STEP_DELIMITER),
                          "Expected Result: " \o cases[i].expectedResult>>
            /\ retrievedContext = blocks(cases)
C26_witness ==
    /\ pc = "awaiting" /\ suiteId = "suite-proj-gemini"
    /\ resolved.testCases = <<TC_GEMINI_001, TC_GEMINI_002>>
    /\ startsWith(retrievedContext, "ID: TC-GEMINI-001\nTitle: User can log in")
    /\ endsWith(retrievedContext,
                "\nExpected Result: An error message \"Invalid credentials\" is shown below the password field.")

\* C27: what a call makes of a response is what the other entry point
\* makes of the same response for the same suite id and the same store:
\* the same sequence returned, or an error from both.
C27_EntryPointsAgree ==
    responded =>
        outcome = IF entry = "text"
                  THEN afterResponseScreenshot(jsonText, suiteId, MOCK_DB)
                  ELSE afterResponseText(jsonText, suiteId, MOCK_DB)
C27_witness ==
    /\ pc = "returned" /\ entry = "text" /\ suiteId = "suite-proj-voyager"
    /\ suitePresent
    /\ parsed.items = <<CAND_SALES_NEAR>>
    /\ outcome = Return(JsonArray(<<>>))
    /\ outcome = afterResponseScreenshot(jsonText, suiteId, MOCK_DB)

\* the suite the new-suite form added last
newest == suites[Len(suites)]

\* C28: the suite that the input section has added and selected is in the
\* store under its id, with the name that was entered.
C28_CreatedSuiteStored ==
    Len(suites) > Len(INITIAL_SUITES) /\ selectedSuiteId = newest.id =>
        /\ selectedSuiteId \in DOMAIN MOCK_DB
        /\ MOCK_DB[selectedSuiteId].name = newest.name
\* what does hold: the selected id is the id of a listed suite
C28_SelectedIsListed ==
    \E i \in 1..Len(suites) : suites[i].id = selectedSuiteId

\* C29: the status no_new_cases_needed is set only after a call whose suite
\* id named a suite of the store with at least one test case, whose context
\* the prompt of the call embedded.
C29_CoveredOnlyWithContext ==
    pc = "returned" /\ generationStatus(outcome.value, suiteId) = "no_new_cases_needed" =>
        /\ resolved.found /\ Len(resolved.testCases) >= 1
        /\ prompt.kind = "gap analysis"
\* what does hold: the status is set only for a call that was given a suite
\* id and returned no test case
C29_CoveredOnlyWithSuiteId ==
    pc = "returned" /\ generationStatus(outcome.value, suiteId) = "no_new_cases_needed" =>
        truthy(suiteId) /\ outcome.value = JsonArray(<<>>)

identical(tc, e) ==
    /\ tc.absent = {} /\ e.absent = {}
    /\ tc.title = e.title /\ tc.steps = e.steps
    /\ tc.expectedResult = e.expectedResult

\* C30: the result of a call holds no candidate with the title, the steps
\* and the expected result of a test case of the suite that the call
\* resolved.
C30_IdenticalRemoved ==
    pc = "returned" /\ resolved.found /\ outcome.value.kind = "array" =>
        \A i \in 1..Len(outcome.value.items) :
            \A j \in 1..Len(resolved.testCases) :
                ~identical(outcome.value.items[i], resolved.testCases[j])
\* what does hold: none with those of a test case that the suite has in the
\* store when the response is taken
C30_IdenticalToStoredRemoved ==
    pc = "returned" /\ suitePresent /\ outcome.value.kind = "array" =>
        \A i \in 1..Len(outcome.value.items) :
            \A j \in 1..Len(MOCK_DB[suiteId].testCases) :
                ~identical(outcome.value.items[i], MOCK_DB[suiteId].testCases[j])
\* and isDuplicate holds of a candidate and a reference with a member
\* identical to it, whatever their titles and contents
C30_IdenticalIsDuplicate ==
    hpc = "done" /\ DOMAIN probe = {"newCase", "existingCases"}
        /\ (\E j \in 1..Len(probe.existingCases) :
                identical(probe.newCase, probe.existingCases[j]))
        => answer = TRUE
====
